---- MODULE Spec2Model ----
(***************************************************************************)
(* Unit commitment: Unit construction, the single-period and multi-period  *)
(* optimizers (validate_inputs, MILP construction, solve, extraction,      *)
(* audit) and the ConstraintValidator.                                     *)
(*                                                                         *)
(* Quantities (power, demand, ramp rates) are integers counted in units of *)
(* the numerical tolerance (1e-6 MW), so that the tolerance is 1.          *)
(* Units and periods are numbered from 1: period k here is period t = k-1  *)
(* of the source, unit k is units[k-1].                                    *)
(* The MILP solver is an exact oracle: it reports Optimal with any         *)
(* minimum-cost assignment of the built problem, or Infeasible.            *)
(***************************************************************************)
EXTENDS Integers, Sequences, FiniteSets, TLC

VARIABLES variant, units, demand, pc, problem, lpstatus, vals, solution,
          error, steps, audits, args

vars == <<variant, units, demand, pc, problem, lpstatus, vals, solution,
          error, steps, audits, args>>

(* ------------------------------ bounds --------------------------------- *)
MaxUnits == 2
MaxT == 2
MaxPower == 2
MaxDemand == 3
MaxAudits == 2
MaxHorizon == 3

(* ------------------------- program constants --------------------------- *)
Inf == 1000
Tolerance == 1
Eps == 1

None == "None"
Bits == {0, 1}

(* ------------------------------ helpers -------------------------------- *)
RECURSIVE SumTo(_, _)
SumTo(f, k) ==
    IF k = 0 THEN 0 ELSE f[k] + SumTo(f, k - 1)

RECURSIVE SumRange(_, _, _)
SumRange(f, a, b) ==
    IF a > b THEN 0 ELSE f[a] + SumRange(f, a + 1, b)

MaxOf(s) ==
    CHOOSE x \in {s[k] : k \in 1..Len(s)} : \A k \in 1..Len(s) : s[k] <= x

Abs(x) ==
    IF x < 0 THEN -x ELSE x

SeqsUpTo(S, n) ==
    UNION {[1..k -> S] : k \in 0..n}

(* ------------------------------- Unit ---------------------------------- *)
Unit(mn, mx, su, sd, fc, up, dn, ru, rd, ist, ip) ==
    [min_power |-> mn, max_power |-> mx, startup_cost |-> su,
     shutdown_cost |-> sd, fuel_cost |-> fc, min_uptime |-> up,
     min_downtime |-> dn, ramp_up_rate |-> ru, ramp_down_rate |-> rd,
     initial_status |-> ist, initial_power |-> ip]

\* Unit.__post_init__: the kind of ValueError raised, or "ok".
PostInit(r) ==
    IF r.min_power < 0 THEN "min_power"
    ELSE IF r.max_power < r.min_power THEN "max_power"
    ELSE IF r.startup_cost < 0 \/ r.shutdown_cost < 0 THEN "costs"
    ELSE IF r.min_uptime < 1 \/ r.min_downtime < 1 THEN "min_updown"
    ELSE "ok"

\* Demand.__post_init__
DemandPostInit(d) ==
    IF Len(d) = 0 THEN "empty"
    ELSE IF \E k \in 1..Len(d) : d[k] < 0 THEN "negative"
    ELSE "ok"

get_periods(d) ==
    Len(d)

get_peak_demand(d) ==
    MaxOf(d)

get_total_demand(d) ==
    SumTo(d, Len(d))

(* -------------------------- validate_inputs ---------------------------- *)
TotalCapacity(us) ==
    SumTo([i \in 1..Len(us) |-> us[i].max_power], Len(us))

\* SinglePeriodOptimizer.validate_inputs: the error raised, or "ok".
SP_validate_inputs(us, d) ==
    IF Len(us) = 0 THEN "NoUnits"
    ELSE IF get_periods(d) # 1 THEN "Shape"
    ELSE IF TotalCapacity(us) < d[1] - Tolerance THEN "Capacity"
    ELSE "ok"

MP_validate_inputs_exact(us, d) ==
    IF Len(us) = 0 THEN "NoUnits"
    ELSE IF get_periods(d) < 2 THEN "Shape"
    ELSE IF TotalCapacity(us) < get_peak_demand(d) THEN "Capacity"
    ELSE "ok"

\* MultiPeriodOptimizer.validate_inputs: the error raised, or "ok".
MP_validate_inputs(us, d) ==
    IF Len(us) = 0 THEN "NoUnits"
    ELSE IF get_periods(d) < 2 THEN "Shape"
    ELSE IF TotalCapacity(us) < get_peak_demand(d) - Tolerance THEN "Capacity"
    ELSE "ok"

validate_inputs(var, us, d) ==
    IF var = "single" THEN SP_validate_inputs(us, d) ELSE MP_validate_inputs(us, d)

(* ----------------------- the MILP built by optimize -------------------- *)
\* A constraint is <<name, unit, period>> (unit 0 for the balance rows); the problem
\* holds the constraints that the code adds, under the names it gives them.
SP_constraints(us) ==
    {<<"Power_Balance", 0, 1>>}
    \cup {<<"Min_Power", i, 1>> : i \in 1..Len(us)}
    \cup {<<"Max_Power", i, 1>> : i \in 1..Len(us)}

MP_constraints_short_tail(us, T) ==
    {<<"Power_Balance", 0, t>> : t \in 1..T}
    \cup {<<"Min_Power", i, t>> : i \in 1..Len(us), t \in 1..T}
    \cup {<<"Max_Power", i, t>> : i \in 1..Len(us), t \in 1..T}
    \cup {<<"Startup_Shutdown", i, t>> : i \in 1..Len(us), t \in 1..T}
    \cup {c \in {<<"Min_Uptime", i, t>> : i \in 1..Len(us), t \in 1..T} :
            (c[3] - 1) + us[c[2]].min_uptime < T}
    \cup {c \in {<<"Min_Downtime", i, t>> : i \in 1..Len(us), t \in 1..T} :
            (c[3] - 1) + us[c[2]].min_downtime < T}
    \cup {c \in {<<"Ramp_Up", i, t>> : i \in 1..Len(us), t \in 1..T} :
            us[c[2]].ramp_up_rate < Inf}
    \cup {c \in {<<"Ramp_Down", i, t>> : i \in 1..Len(us), t \in 1..T} :
            us[c[2]].ramp_down_rate < Inf}

MP_constraints(us, T) ==
    {<<"Power_Balance", 0, t>> : t \in 1..T}
    \cup {<<"Min_Power", i, t>> : i \in 1..Len(us), t \in 1..T}
    \cup {<<"Max_Power", i, t>> : i \in 1..Len(us), t \in 1..T}
    \cup {<<"Startup_Shutdown", i, t>> : i \in 1..Len(us), t \in 1..T}
    \cup {c \in {<<"Min_Uptime", i, t>> : i \in 1..Len(us), t \in 1..T} :
            (c[3] - 1) + us[c[2]].min_uptime <= T}
    \cup {c \in {<<"Min_Downtime", i, t>> : i \in 1..Len(us), t \in 1..T} :
            (c[3] - 1) + us[c[2]].min_downtime <= T}
    \cup {c \in {<<"Ramp_Up", i, t>> : i \in 1..Len(us), t \in 1..T} :
            us[c[2]].ramp_up_rate < Inf}
    \cup {c \in {<<"Ramp_Down", i, t>> : i \in 1..Len(us), t \in 1..T} :
            us[c[2]].ramp_down_rate < Inf}

BuildProblem(var, us, d) ==
    [objective |-> var,
     constraints |-> IF var = "single" THEN SP_constraints(us)
                     ELSE MP_constraints(us, get_periods(d))]

\* The decision variables of one unit, a row [u, p, v, w] over the periods, within
\* their declared categories and bounds (LpBinary, lowBound=0, upBound=max_power).
\* The single-period problem has no v and w: they are carried as zero.
ZeroRow(T) ==
    [t \in 1..T |-> 0]

BinaryRows(T) ==
    [1..T -> Bits]

IntegerRows(T) ==
    [1..T -> 0..2]

\* u[i][t], cat=LpBinary
StatusRows(T) ==
    BinaryRows(T)

PowerRows(un, T) ==
    [1..T -> 0..un.max_power]

HoldsUnit_ramps_when_on(c, r, un) ==
    LET t == c[3]
        prev_status == IF t = 1 THEN un.initial_status ELSE r.u[t - 1]
        prev_power == IF t = 1 THEN un.initial_power ELSE r.p[t - 1]
    IN  CASE c[1] = "Min_Power" -> r.p[t] >= un.min_power * r.u[t]
          [] c[1] = "Max_Power" -> r.p[t] <= un.max_power * r.u[t]
          [] c[1] = "Startup_Shutdown" -> r.v[t] - r.w[t] = r.u[t] - prev_status
          [] c[1] = "Min_Uptime" ->
                SumRange(r.u, t, t + un.min_uptime - 1) >= un.min_uptime * r.v[t]
          [] c[1] = "Min_Downtime" ->
                un.min_downtime - SumRange(r.u, t, t + un.min_downtime - 1)
                    >= un.min_downtime * r.w[t]
          [] c[1] = "Ramp_Up" ->
                r.u[t] = 1 => r.p[t] - prev_power <= un.ramp_up_rate
          [] c[1] = "Ramp_Down" ->
                r.u[t] = 1 => prev_power - r.p[t] <= un.ramp_down_rate

\* Whether row r of unit un satisfies the unit's constraint c.
HoldsUnit(c, r, un) ==
    LET t == c[3]
        prev_status == IF t = 1 THEN un.initial_status ELSE r.u[t - 1]
        prev_power == IF t = 1 THEN un.initial_power ELSE r.p[t - 1]
    IN  CASE c[1] = "Min_Power" -> r.p[t] >= un.min_power * r.u[t]
          [] c[1] = "Max_Power" -> r.p[t] <= un.max_power * r.u[t]
          [] c[1] = "Startup_Shutdown" -> r.v[t] - r.w[t] = r.u[t] - prev_status
          [] c[1] = "Min_Uptime" ->
                SumRange(r.u, t, t + un.min_uptime - 1) >= un.min_uptime * r.v[t]
          [] c[1] = "Min_Downtime" ->
                un.min_downtime - SumRange(r.u, t, t + un.min_downtime - 1)
                    >= un.min_downtime * r.w[t]
          [] c[1] = "Ramp_Up" -> r.p[t] - prev_power <= un.ramp_up_rate
          [] c[1] = "Ramp_Down" -> prev_power - r.p[t] <= un.ramp_down_rate

TotalPower(a, t) ==
    SumTo([i \in 1..Len(a) |-> a[i].p[t]], Len(a))

HoldsBalance(c, a, d) ==
    TotalPower(a, c[3]) = d[c[3]]

\* The rows of unit i that satisfy the unit's constraints, enumerated with the
\* constraints on u and p alone applied first.
UnitRows(pb, us, i, T) ==
    UNION {
        {r \in {[u |-> x.u, p |-> x.p, v |-> y.v, w |-> y.w] :
                    x \in {x \in {[u |-> su, p |-> sp] :
                                        su \in StatusRows(T), sp \in PowerRows(us[i], T)} :
                            \A c \in b.onUP :
                                HoldsUnit(c, [u |-> x.u, p |-> x.p, v |-> b.zero,
                                              w |-> b.zero], us[i])},
                    y \in IF pb.objective = "single" THEN {[v |-> b.zero, w |-> b.zero]}
                          ELSE [v : BinaryRows(T), w : BinaryRows(T)]} :
            \A c \in b.rest : HoldsUnit(c, r, us[i])} :
        b \in {[zero |-> ZeroRow(T),
                onUP |-> {c \in pb.constraints : c[2] = i /\ c[1] \in
                            {"Min_Power", "Max_Power", "Ramp_Up", "Ramp_Down"}},
                rest |-> {c \in pb.constraints : c[2] = i /\ c[1] \in
                            {"Startup_Shutdown", "Min_Uptime", "Min_Downtime"}}]}}

RECURSIVE RowCombos(_, _, _, _)
RowCombos(pb, us, k, T) ==
    IF k = 0 THEN {<<>>}
    ELSE {Append(a, r) : a \in RowCombos(pb, us, k - 1, T), r \in UnitRows(pb, us, k, T)}

Feasible(pb, us, d) ==
    {a \in RowCombos(pb, us, Len(us), get_periods(d)) :
        \A c \in pb.constraints : c[1] = "Power_Balance" => HoldsBalance(c, a, d)}

\* The objective: startup_cost * u + fuel_cost * p (single period), or
\* startup_cost * v + shutdown_cost * w + fuel_cost * p (multi period).
RowCost(obj, un, r, T) ==
    IF obj = "single"
    THEN un.startup_cost * SumTo(r.u, T) + un.fuel_cost * SumTo(r.p, T)
    ELSE un.startup_cost * SumTo(r.v, T) + un.shutdown_cost * SumTo(r.w, T)
         + un.fuel_cost * SumTo(r.p, T)

Objective(obj, a, us, T) ==
    SumTo([i \in 1..Len(us) |-> RowCost(obj, us[i], a[i], T)], Len(us))

MinOf(S) ==
    CHOOSE m \in S : \A x \in S : m <= x

\* The minimum-cost assignments among the feasible ones F.
Optimal(pb, us, d, F) ==
    UNION {{a \in F : Objective(pb.objective, a, us, get_periods(d)) = best} :
            best \in {MinOf({Objective(pb.objective, a, us, get_periods(d)) : a \in F})}}

(* ------------------------------ Solution ------------------------------- *)
get_num_units(sol) ==
    Len(sol.status)

get_num_periods(sol) ==
    IF Len(sol.status) = 0 THEN 0 ELSE Len(sol.status[1])

get_total_power(sol, t) ==
    SumTo([i \in 1..Len(sol.power) |-> sol.power[i][t]], Len(sol.power))

(* ------------------------- ConstraintValidator ------------------------- *)
\* The outcome of a check: the ValueError it raises, as [kind, unit, period]
\* (unit 0 where the message names no unit), or Accept when it returns.
Accept ==
    [kind |-> "ok", unit |-> 0, period |-> 0]

Violation(k, i, t) ==
    [kind |-> k, unit |-> i, period |-> t]

FirstPair_periods_outermost(bad) ==
    IF bad = {} THEN <<0, 0>>
    ELSE CHOOSE x \in bad :
            \A y \in bad : x[2] < y[2] \/ (x[2] = y[2] /\ x[1] <= y[1])

\* The first pair (i, t) of the set bad in loop order, units outermost; <<0, 0>> if
\* bad is empty.
FirstPair(bad) ==
    IF bad = {} THEN <<0, 0>>
    ELSE CHOOSE x \in bad :
            \A y \in bad : x[1] < y[1] \/ (x[1] = y[1] /\ x[2] <= y[2])

_validate_power_balance(sol, d) ==
    LET Bad(i, t) == Abs(get_total_power(sol, t) - d[t]) > Eps
        x == FirstPair({y \in {1} \X (1..get_periods(d)) : Bad(y[1], y[2])})
    IN  IF x = <<0, 0>> THEN Accept ELSE Violation("power_balance", 0, x[2])

_validate_capacity_limits(sol, us) ==
    LET Bad(i, t) ==
            IF sol.status[i][t] = 1
            THEN sol.power[i][t] < us[i].min_power - Eps
                 \/ sol.power[i][t] > us[i].max_power + Eps
            ELSE sol.status[i][t] = 0 /\ sol.power[i][t] > Eps
        x == FirstPair({y \in (1..Len(us)) \X (1..get_num_periods(sol)) :
                            Bad(y[1], y[2])})
    IN  IF x = <<0, 0>> THEN Accept ELSE Violation("capacity", x[1], x[2])

_validate_ramp_rates(sol, us) ==
    LET Change(i, t) ==
            sol.power[i][t] - (IF t = 1 THEN us[i].initial_power ELSE sol.power[i][t - 1])
        Up(i, t) == Change(i, t) > us[i].ramp_up_rate + Eps
        Down(i, t) == Change(i, t) < (-us[i].ramp_down_rate) - Eps
        Bad(i, t) == Up(i, t) \/ Down(i, t)
        x == FirstPair({y \in (1..Len(us)) \X (1..get_num_periods(sol)) :
                            Bad(y[1], y[2])})
    IN  IF get_num_periods(sol) <= 1 \/ x = <<0, 0>> THEN Accept
        ELSE IF Up(x[1], x[2]) THEN Violation("ramp_up", x[1], x[2])
        ELSE Violation("ramp_down", x[1], x[2])

\* The walk over one unit's status row from period t on, with the loop's locals;
\* the period and kind of the first violation, or period 0.
RECURSIVE MinUpDownWalk(_, _, _, _, _, _, _)
MinUpDownWalk(un, row, t, T, prev_status, consecutive_on, consecutive_off) ==
    IF t > T THEN [kind |-> "ok", period |-> 0]
    ELSE IF row[t] = 1
    THEN IF prev_status = 0 /\ consecutive_off < un.min_downtime
         THEN [kind |-> "min_downtime", period |-> t]
         ELSE MinUpDownWalk(un, row, t + 1, T, row[t], consecutive_on + 1,
                            IF prev_status = 0 THEN 0 ELSE consecutive_off)
    ELSE IF prev_status = 1 /\ consecutive_on < un.min_uptime
         THEN [kind |-> "min_uptime", period |-> t]
         ELSE MinUpDownWalk(un, row, t + 1, T, row[t],
                            IF prev_status = 1 THEN 0 ELSE consecutive_on,
                            consecutive_off + 1)

MinUpDownUnit_unseeded(un, row, T) ==
    MinUpDownWalk(un, row, 1, T, un.initial_status, 0, 0)

\* prev_status, consecutive_on and consecutive_off as seeded before the period loop.
MinUpDownUnit(un, row, T) ==
    MinUpDownWalk(un, row, 1, T, un.initial_status,
                  IF un.initial_status = 0 THEN 0 ELSE 1,
                  IF un.initial_status = 1 THEN 0 ELSE 1)

_validate_min_uptime_downtime(sol, us) ==
    LET T == get_num_periods(sol)
        bad == {i \in 1..Len(us) : MinUpDownUnit(us[i], sol.status[i], T).kind # "ok"}
        first == CHOOSE i \in bad : \A j \in bad : i <= j
        r == MinUpDownUnit(us[first], sol.status[first], T)
    IN  IF bad = {} THEN Accept ELSE Violation(r.kind, first, r.period)

\* ConstraintValidator.validate_solution: the first check that raises decides.
validate_solution(sol, us, d) ==
    LET b == _validate_power_balance(sol, d)
        c == _validate_capacity_limits(sol, us)
        r == _validate_ramp_rates(sol, us)
        m == _validate_min_uptime_downtime(sol, us)
    IN  IF b # Accept THEN b
        ELSE IF c # Accept THEN c
        ELSE IF r # Accept THEN r
        ELSE m

(* ------------------------------ optimize ------------------------------- *)
\* The values the solver leaves in the variables when it reports Infeasible are not
\* defined by the solver interface: value() gives None for every variable, or some
\* values within the variables' bounds. The second case is carried as Unsolved until
\* the audit reads the values.
Unsolved == "Unsolved"

LeftoverRows(un, T) ==
    [u : [1..T -> Bits], p : PowerRows(un, T)]

RECURSIVE LeftoverValues(_, _, _)
LeftoverValues(us, k, T) ==
    IF k = 0 THEN {<<>>}
    ELSE {Append(a, r) : a \in LeftoverValues(us, k - 1, T), r \in LeftoverRows(us[k], T)}

StatusOf(a) ==
    [i \in 1..Len(a) |-> a[i].u]

PowerOf(a) ==
    [i \in 1..Len(a) |-> a[i].p]

SumAll(rows) ==
    SumTo([i \in 1..Len(rows) |-> SumTo(rows[i], Len(rows[i]))], Len(rows))

\* The Solution that optimize builds from the variables' values.
ExtractSolution(var, a, us, d, st) ==
    LET T == get_periods(d)
    IN  [status |-> StatusOf(a),
         power |-> PowerOf(a),
         total_cost |-> Objective(var, a, us, T),
         is_optimal |-> (st = "Optimal"),
         metadata |->
            IF var = "single"
            THEN [solver_status |-> st, num_units |-> Len(us), demand |-> d[1],
                  units_on |-> SumAll([i \in 1..Len(a) |-> a[i].u])]
            ELSE [solver_status |-> st, num_units |-> Len(us), num_periods |-> T,
                  total_demand |-> get_total_demand(d),
                  peak_demand |-> get_peak_demand(d),
                  total_startups |-> SumAll([i \in 1..Len(a) |-> a[i].v]),
                  total_shutdowns |-> SumAll([i \in 1..Len(a) |-> a[i].w]),
                  avg_units_on |-> <<SumAll([i \in 1..Len(a) |-> a[i].u]), T>>]]

UnsolvedSolution(st) ==
    [status |-> <<>>, power |-> <<>>, total_cost |-> Unsolved,
     is_optimal |-> (st = "Optimal"), metadata |-> [solver_status |-> st]]

\* Before solve() the variables have no values; before extraction there is no Solution.
NoValues ==
    [kind |-> None, a |-> <<>>]

NoSolution ==
    [status |-> <<>>, power |-> <<>>, total_cost |-> 0, is_optimal |-> FALSE,
     metadata |-> [solver_status |-> "Not Solved"]]

NoProblem ==
    [objective |-> None, constraints |-> {}]

\* No exception has been raised. An exception is [kind, unit, period] as the auditor's.
NoError ==
    [kind |-> "none", unit |-> 0, period |-> 0]

\* self.validate_inputs(units, demand), the first statement of optimize.
OptimizeValidate ==
    /\ pc = "start"
    /\ steps' = Append(steps, "validate_inputs")
    /\ LET r == validate_inputs(variant, units, demand)
       IN  IF r = "ok"
           THEN pc' = "validated" /\ error' = error
           ELSE pc' = "raised" /\ error' = Violation(r, 0, 0)
    /\ UNCHANGED <<args, variant, units, demand, problem, lpstatus, vals, solution, audits>>

\* LpProblem, the variables, the objective and the constraints.
OptimizeBuild ==
    /\ pc = "validated"
    /\ steps' = Append(steps, "build")
    /\ problem' = BuildProblem(variant, units, demand)
    /\ pc' = "built"
    /\ UNCHANGED <<args, variant, units, demand, lpstatus, vals, solution, error, audits>>

\* problem.solve()
OptimizeSolve ==
    /\ pc = "built"
    /\ steps' = Append(steps, "solve")
    /\ \E F \in {Feasible(problem, units, demand)} :
           IF F = {}
           THEN /\ lpstatus' = "Infeasible"
                /\ vals' \in {[kind |-> None, a |-> <<>>], [kind |-> Unsolved, a |-> <<>>]}
           ELSE /\ lpstatus' = "Optimal"
                /\ \E a \in Optimal(problem, units, demand, F) :
                        vals' = [kind |-> "Values", a |-> a]
    /\ pc' = "solved"
    /\ UNCHANGED <<args, variant, units, demand, problem, solution, error, audits>>

OptimizeExtractUnaudited ==
    /\ pc = "solved"
    /\ steps' = Append(steps, "extract")
    /\ IF vals.kind = None
       THEN pc' = "raised" /\ error' = Violation("TypeError", 0, 0) /\ solution' = solution
       ELSE /\ pc' = "audited"
            /\ error' = error
            /\ solution' = IF vals.kind = Unsolved THEN UnsolvedSolution(lpstatus)
                           ELSE ExtractSolution(variant, vals.a, units, demand, lpstatus)
    /\ UNCHANGED <<args, variant, units, demand, problem, lpstatus, vals, audits>>

\* status_solution, power_solution, total_cost, is_optimal, Solution(...)
OptimizeExtract ==
    /\ pc = "solved"
    /\ steps' = Append(steps, "extract")
    /\ IF vals.kind = None
       THEN pc' = "raised" /\ error' = Violation("TypeError", 0, 0) /\ solution' = solution
       ELSE /\ pc' = "extracted"
            /\ error' = error
            /\ solution' = IF vals.kind = Unsolved THEN UnsolvedSolution(lpstatus)
                           ELSE ExtractSolution(variant, vals.a, units, demand, lpstatus)
    /\ UNCHANGED <<args, variant, units, demand, problem, lpstatus, vals, audits>>

OptimizeAuditIgnored ==
    /\ pc = "extracted"
    /\ steps' = Append(steps, "audit")
    /\ \E a \in IF vals.kind = Unsolved
                THEN LeftoverValues(units, Len(units), get_periods(demand))
                ELSE {vals.a} :
          LET sol == [solution EXCEPT !.status = StatusOf(a), !.power = PowerOf(a)]
              r == validate_solution(sol, units, demand)
          IN  /\ audits' = Append(audits, r)
              /\ pc' = "audited" /\ error' = error /\ solution' = sol
    /\ UNCHANGED <<args, variant, units, demand, problem, lpstatus, vals>>

\* self.validator.validate_solution(solution, units, demand)
OptimizeAudit ==
    /\ pc = "extracted"
    /\ steps' = Append(steps, "audit")
    /\ \E a \in IF vals.kind = Unsolved
                THEN LeftoverValues(units, Len(units), get_periods(demand))
                ELSE {vals.a} :
          LET sol == [solution EXCEPT !.status = StatusOf(a), !.power = PowerOf(a)]
              r == validate_solution(sol, units, demand)
          IN  /\ audits' = Append(audits, r)
              /\ IF r = Accept
                 THEN pc' = "audited" /\ error' = error /\ solution' = sol
                 ELSE pc' = "raised" /\ error' = r /\ solution' = solution
    /\ UNCHANGED <<args, variant, units, demand, problem, lpstatus, vals>>

\* return solution
OptimizeReturn ==
    /\ pc = "audited"
    /\ steps' = Append(steps, "return")
    /\ pc' = "returned"
    /\ UNCHANGED <<args, variant, units, demand, problem, lpstatus, vals, solution, error, audits>>

(* ------------------------------- inputs -------------------------------- *)
\* Units given only their dispatch attributes, the history attributes at the
\* dataclass defaults.
DispatchUnits ==
    {Unit(c[1], c[2], k[1], k[2], k[3], 1, 1, Inf, Inf, 0, 0) :
        c \in {<<0, MaxPower>>, <<1, 1>>},
        k \in {<<0, 0, 1>>, <<0, 0, 2>>, <<1, 1, 1>>}}

\* Units that differ in their commitment history and minimum run lengths.
HistoryUnits ==
    {Unit(1, MaxPower, 0, 0, 1, up, dn, Inf, Inf, ist, 0) :
        up \in {1, 3}, dn \in {1, 2}, ist \in Bits}

\* Ramp-limited units, running at the start.
RampUnits ==
    {Unit(0, MaxPower, 0, 0, 1, 1, 1, 1, 1, 1, ip) : ip \in {0, MaxPower}}

Units ==
    {r \in DispatchUnits \cup HistoryUnits \cup RampUnits : PostInit(r) = "ok"}

Fleets ==
    SeqsUpTo(Units, MaxUnits)

Demands ==
    {d \in SeqsUpTo(0..MaxDemand, MaxT) : DemandPostInit(d) = "ok"}

\* No Unit constructor has been called.
NoArgs ==
    [made |-> FALSE, raw |-> Unit(0, 0, 0, 0, 0, 1, 1, Inf, Inf, 0, 0)]

Init ==
    /\ args = NoArgs
    /\ variant \in {"single", "multi"}
    /\ units \in Fleets
    /\ demand \in Demands
    /\ pc = "start"
    /\ problem = NoProblem
    /\ lpstatus = "Not Solved"
    /\ vals = NoValues
    /\ solution = NoSolution
    /\ error = NoError
    /\ steps = <<>>
    /\ audits = <<>>

Next ==
    \/ OptimizeValidate
    \/ OptimizeBuild
    \/ OptimizeSolve
    \/ OptimizeExtract
    \/ OptimizeAudit
    \/ OptimizeReturn

Spec ==
    Init /\ [][Next]_vars

(* ------------------------- Unit construction --------------------------- *)
\* The attribute values a caller may pass to Unit(...), valid or not; the ramp
\* rates and the initial state at their defaults.
RawUnits ==
    {Unit(mn, mx, su, sd, fc, up, dn, Inf, Inf, 0, 0) :
        mn \in {-1, 0, 1}, mx \in {0, 1}, su \in {-1, 0}, sd \in {-1, 0},
        fc \in {-1, 0, 1}, up \in {0, 1}, dn \in {0, 1}}

\* Unit(...): the dataclass __init__ followed by __post_init__; the caller appends the
\* new Unit to its fleet, or sees the ValueError.
ConstructUnit ==
    /\ pc = "construct"
    /\ Len(units) < MaxUnits
    /\ \E raw \in RawUnits :
          /\ args' = [made |-> TRUE, raw |-> raw]
          /\ IF PostInit(raw) = "ok"
             THEN units' = Append(units, raw) /\ error' = NoError
             ELSE units' = units /\ error' = Violation(PostInit(raw), Len(units) + 1, 0)
    /\ UNCHANGED <<variant, demand, pc, problem, lpstatus, vals, solution, steps, audits>>

InitUnit ==
    /\ args = NoArgs
    /\ variant = "single"
    /\ units = <<>>
    /\ demand = <<0>>
    /\ pc = "construct"
    /\ problem = NoProblem
    /\ lpstatus = "Not Solved"
    /\ vals = NoValues
    /\ solution = NoSolution
    /\ error = NoError
    /\ steps = <<>>
    /\ audits = <<>>

NextUnit ==
    ConstructUnit

SpecUnit ==
    InitUnit /\ [][NextUnit]_vars

(* -------------------- the auditor on any Solution ---------------------- *)
\* validate_solution called by any caller on a Solution from any source, one check
\* at a time; a check that raises ends the call. steps lists the checks the current
\* call has run, audits the outcomes of the calls so far.
AuditRaise(r) ==
    /\ audits' = Append(audits, r)
    /\ error' = r
    /\ pc' = "caller"

AuditFrame ==
    UNCHANGED <<args, variant, units, demand, problem, lpstatus, vals, solution>>

AuditBalance ==
    /\ pc = "caller"
    /\ Len(audits) < MaxAudits
    /\ steps' = <<"power_balance">>
    /\ LET r == _validate_power_balance(solution, demand)
       IN  IF r # Accept THEN AuditRaise(r)
           ELSE pc' = "capacity" /\ UNCHANGED <<audits, error>>
    /\ AuditFrame

AuditCapacityClamping ==
    /\ pc = "capacity"
    /\ steps' = Append(steps, "capacity")
    /\ LET r == _validate_capacity_limits(solution, units)
       IN  IF r # Accept THEN AuditRaise(r)
           ELSE pc' = "ramps" /\ UNCHANGED <<audits, error>>
    /\ solution' = [solution EXCEPT !.power =
            [i \in 1..Len(units) |-> [t \in 1..get_num_periods(solution) |->
                IF solution.status[i][t] = 0 THEN 0 ELSE solution.power[i][t]]]]
    /\ UNCHANGED <<args, variant, units, demand, problem, lpstatus, vals>>

AuditCapacity ==
    /\ pc = "capacity"
    /\ steps' = Append(steps, "capacity")
    /\ LET r == _validate_capacity_limits(solution, units)
       IN  IF r # Accept THEN AuditRaise(r)
           ELSE pc' = "ramps" /\ UNCHANGED <<audits, error>>
    /\ AuditFrame

AuditRamps ==
    /\ pc = "ramps"
    /\ steps' = Append(steps, "ramps")
    /\ LET r == _validate_ramp_rates(solution, units)
       IN  IF r # Accept THEN AuditRaise(r)
           ELSE pc' = "min_up_down" /\ UNCHANGED <<audits, error>>
    /\ AuditFrame

AuditMinUpDown ==
    /\ pc = "min_up_down"
    /\ steps' = Append(steps, "min_up_down")
    /\ LET r == _validate_min_uptime_downtime(solution, units)
       IN  IF r # Accept THEN AuditRaise(r)
           ELSE /\ audits' = Append(audits, Accept)
                /\ pc' = "caller"
                /\ error' = error
    /\ AuditFrame

\* Units with every limit the auditor reads in force; the ramp rates are zero, so
\* that a change of more than the tolerance is a ramp violation.
AuditUnits ==
    {Unit(1, MaxPower, 0, 0, 1, 2, 2, 0, 0, ist, 0) : ist \in Bits}

\* Any rectangular status and power for the fleet and the demand.
AnySolution(n, T) ==
    {[status |-> st, power |-> pw, total_cost |-> 0, is_optimal |-> TRUE,
      metadata |-> [solver_status |-> "Optimal"]] :
        st \in [1..n -> [1..T -> Bits]], pw \in [1..n -> [1..T -> 0..MaxPower]]}

InitAudit ==
    /\ args = NoArgs
    /\ variant = "multi"
    /\ units \in SeqsUpTo(AuditUnits, MaxUnits) \ {<<>>}
    /\ demand \in SeqsUpTo(0..MaxPower, MaxT) \ {<<>>}
    /\ solution \in AnySolution(Len(units), Len(demand))
    /\ pc = "caller"
    /\ problem = NoProblem
    /\ lpstatus = "Not Solved"
    /\ vals = NoValues
    /\ error = NoError
    /\ steps = <<>>
    /\ audits = <<>>

NextAudit ==
    \/ AuditBalance
    \/ AuditCapacity
    \/ AuditRamps
    \/ AuditMinUpDown

SpecAudit ==
    InitAudit /\ [][NextAudit]_vars

(* --------------- the multi-period model's feasible set ----------------- *)
\* The constraint set that optimize builds, read through its assignments: any
\* assignment that satisfies the built constraints is a candidate of the solve, and
\* the auditor is a function that may be applied to it.
\* Units with a commitment history and minimum run lengths, ramps unbounded.
RunLengthUnits ==
    {Unit(1, MaxPower, 0, 0, 1, up, dn, Inf, Inf, ist, 0) :
        up \in {1, 2, 3}, dn \in {1, 2, 3}, ist \in Bits}

\* Units with each ramp side finite or unbounded, and any initial state.
RampSideUnits ==
    {Unit(mn, MaxPower, 0, 0, 1, 1, 1, ru, rd, ist, ip) :
        mn \in {0, MaxPower}, ru \in {1, Inf}, rd \in {1, Inf},
        ist \in Bits, ip \in {0, MaxPower}}

\* A second unit that takes the rest of the demand.
Companion ==
    Unit(1, MaxPower, 0, 0, 1, 1, 1, Inf, Inf, 0, 0)

\* One unit alone, whose power the balance row makes equal to the demand, or a
\* unit with a history together with the companion.
ModelFleets ==
    {<<r>> : r \in {x \in RunLengthUnits \cup RampSideUnits : PostInit(x) = "ok"}}
    \cup {<<r, Companion>> : r \in {x \in RunLengthUnits : PostInit(x) = "ok"}}

ModelDemands ==
    {d \in SeqsUpTo(0..MaxDemand, MaxHorizon) : Len(d) >= 2}

\* Any assignment of u, p, v, w that satisfies the constraints of the built problem.
CandidateAssignment ==
    /\ pc = "built"
    /\ steps' = Append(steps, "candidate")
    /\ \E a \in Feasible(problem, units, demand) :
          /\ vals' = [kind |-> "Values", a |-> a]
          /\ solution' = ExtractSolution(variant, a, units, demand, lpstatus)
    /\ pc' = "candidate"
    /\ UNCHANGED <<args, variant, units, demand, problem, lpstatus, error, audits>>

\* validate_solution applied to the candidate's status and power.
AuditCandidate ==
    /\ pc = "candidate"
    /\ steps' = Append(steps, "audit")
    /\ audits' = Append(audits, validate_solution(solution, units, demand))
    /\ pc' = "checked"
    /\ UNCHANGED <<args, variant, units, demand, problem, lpstatus, vals, solution, error>>

InitModel ==
    /\ args = NoArgs
    /\ variant = "multi"
    /\ units \in ModelFleets
    /\ demand \in ModelDemands
    /\ pc = "start"
    /\ problem = NoProblem
    /\ lpstatus = "Not Solved"
    /\ vals = NoValues
    /\ solution = NoSolution
    /\ error = NoError
    /\ steps = <<>>
    /\ audits = <<>>

NextModel ==
    \/ OptimizeValidate
    \/ OptimizeBuild
    \/ CandidateAssignment
    \/ AuditCandidate

SpecModel ==
    InitModel /\ [][NextModel]_vars

(* ------------- the auditor on schedules of one unit -------------------- *)
\* validate_solution on any status trajectory of one unit whose power and demand
\* are consistent with it, so that the call reaches the minimum up/down walk.
WalkSolution(un, row) ==
    [status |-> <<row>>,
     power |-> <<[t \in 1..Len(row) |-> un.min_power * row[t]]>>,
     total_cost |-> 0, is_optimal |-> TRUE,
     metadata |-> [solver_status |-> "Optimal"]]

InitWalk ==
    /\ args = NoArgs
    /\ variant = "multi"
    /\ \E un \in RunLengthUnits, row \in SeqsUpTo(Bits, MaxHorizon) \ {<<>>} :
          /\ units = <<un>>
          /\ solution = WalkSolution(un, row)
          /\ demand = solution.power[1]
    /\ pc = "caller"
    /\ problem = NoProblem
    /\ lpstatus = "Not Solved"
    /\ vals = NoValues
    /\ error = NoError
    /\ steps = <<>>
    /\ audits = <<>>

NextWalk ==
    \/ AuditBalance
    \/ AuditCapacity
    \/ AuditRamps
    \/ AuditMinUpDown

SpecWalk ==
    InitWalk /\ [][NextWalk]_vars

(* ======================= properties of optimize ======================== *)
Finished ==
    pc \in {"returned", "raised"}

Periods ==
    get_periods(demand)

OptimizeSteps ==
    <<"validate_inputs", "build", "solve", "extract", "audit", "return">>

IsPrefix(s, t) ==
    Len(s) <= Len(t) /\ \A k \in 1..Len(s) : s[k] = t[k]

\* C1 (as claimed): whenever the solver ends with a non-optimal status, optimize
\* returns a Solution with is_optimal = false and the solver status in its metadata,
\* and validate_solution is not invoked: no exception, no audit step.
C1_NonOptimalReturnedUnaudited ==
    lpstatus = "Infeasible" =>
        /\ pc # "raised"
        /\ audits = <<>>
        /\ pc = "returned" =>
              /\ ~solution.is_optimal
              /\ solution.metadata.solver_status = "Infeasible"

\* C2: the steps of one optimize call occur in the order validate_inputs, build,
\* solve, extract, audit, return; a Solution is returned only after validate_solution
\* accepted it, and when the audit raises, its error propagates and nothing is returned.
C2_StepsInOrder ==
    /\ IsPrefix(steps, OptimizeSteps)
    /\ pc # "start" => steps[1] = "validate_inputs"
    /\ pc \in {"audited", "returned"} =>
          /\ Len(steps) >= 5
          /\ audits = <<Accept>>
          /\ validate_solution(solution, units, demand) = Accept
    /\ (audits # <<>> /\ audits[1] # Accept) =>
          /\ pc = "raised"
          /\ error = audits[1]
          /\ steps = SubSeq(OptimizeSteps, 1, 5)

C2_Witness ==
    pc = "returned" /\ solution.is_optimal /\ steps = OptimizeSteps

\* C3: optimize raises an input error, with no problem built or solved, exactly when
\* validate_inputs rejects; validate_inputs accepts iff the fleet is non-empty, T fits
\* the variant and the sum of max_power is at least the peak demand minus the
\* tolerance; an empty fleet is reported first, then the shape, then the capacity.
C3_InputErrors ==
    LET nonempty == Len(units) > 0
        fits == IF variant = "single" THEN Periods = 1 ELSE Periods >= 2
        enough == \A t \in 1..Periods :
                    SumTo([i \in 1..Len(units) |-> units[i].max_power], Len(units))
                        >= demand[t] - Tolerance
        expected == IF ~nonempty THEN "NoUnits"
                    ELSE IF ~fits THEN "Shape"
                    ELSE IF ~enough THEN "Capacity"
                    ELSE "ok"
    IN  /\ validate_inputs(variant, units, demand) = expected
        /\ pc # "start" =>
              IF expected = "ok"
              THEN error.kind \notin {"NoUnits", "Shape", "Capacity"}
              ELSE /\ pc = "raised"
                   /\ error = Violation(expected, 0, 0)
                   /\ steps = <<"validate_inputs">>
                   /\ problem = NoProblem
                   /\ lpstatus = "Not Solved"

C3_Witness ==
    /\ pc = "raised"
    /\ error.kind = "Capacity"
    /\ variant = "multi"

\* C4: every Solution returned with is_optimal = true satisfies power balance in
\* every period, the capacity bounds of committed units and zero power of uncommitted
\* ones, the ramp bounds from initial_power on (multi-period) and the auditor's
\* minimum up/down check, all within the tolerance.
C4_ReturnedOptimalIsValid ==
    (pc = "returned" /\ solution.is_optimal) =>
        /\ \A t \in 1..Periods :
              Abs(SumTo([i \in 1..Len(units) |-> solution.power[i][t]], Len(units))
                  - demand[t]) <= Eps
        /\ \A i \in 1..Len(units), t \in 1..Periods :
              /\ solution.status[i][t] = 1 =>
                    /\ solution.power[i][t] >= units[i].min_power - Eps
                    /\ solution.power[i][t] <= units[i].max_power + Eps
              /\ solution.status[i][t] = 0 => solution.power[i][t] <= Eps
        /\ Periods > 1 =>
              \A i \in 1..Len(units), t \in 1..Periods :
                  LET prev == IF t = 1 THEN units[i].initial_power
                              ELSE solution.power[i][t - 1]
                  IN  /\ solution.power[i][t] - prev <= units[i].ramp_up_rate + Eps
                      /\ prev - solution.power[i][t] <= units[i].ramp_down_rate + Eps
        /\ \A i \in 1..Len(units) :
              MinUpDownUnit(units[i], solution.status[i], Periods).kind = "ok"

C4_Witness ==
    /\ pc = "returned"
    /\ solution.is_optimal
    /\ variant = "multi"
    /\ \E i \in 1..Len(units) :
          /\ units[i].ramp_up_rate < Inf
          /\ units[i].initial_status = 1
          /\ solution.status[i][1] = 0

\* C5: every Solution returned by optimize has len(units) rows of status and of
\* power, every row T = demand.get_periods() entries long, every status 0 or 1 and
\* every power non-negative.
C5_ReturnedIsRectangular ==
    pc = "returned" =>
        /\ Len(solution.status) = Len(units)
        /\ Len(solution.power) = Len(units)
        /\ \A i \in 1..Len(units) :
              /\ DOMAIN solution.status[i] = 1..Periods
              /\ DOMAIN solution.power[i] = 1..Periods
              /\ \A t \in 1..Periods :
                    /\ solution.status[i][t] \in {0, 1}
                    /\ solution.power[i][t] >= 0

C5_Witness ==
    /\ pc = "returned"
    /\ Len(units) = MaxUnits
    /\ Periods = MaxT
    /\ \E i \in 1..Len(units) : solution.status[i][1] = 1

\* The first period of the run of equal status that ends at period t - 1 (t >= 2).
RECURSIVE RunStart(_, _)
RunStart(row, t) ==
    IF t - 1 > 1 /\ row[t - 2] = row[t - 1] THEN RunStart(row, t - 1) ELSE t - 1

\* C7 (as claimed): the auditor keeps the model's tail-of-horizon policy: its minimum
\* up/down check does not reject a run that began with a startup (shutdown) at a
\* period for which the model omitted the Min_Uptime (Min_Downtime) constraint,
\* whatever the status in the periods after it.
C7_AuditorKeepsTailPolicy ==
    (pc = "raised" /\ lpstatus = "Optimal"
        /\ error.kind \in {"min_uptime", "min_downtime"}) =>
        LET i == error.unit
            row == solution.status[i]
            s == RunStart(row, error.period)
            before == IF s = 1 THEN units[i].initial_status ELSE row[s - 1]
            name == IF error.kind = "min_uptime" THEN "Min_Uptime" ELSE "Min_Downtime"
        IN  (error.period >= 2 /\ before # row[s]) =>
                <<name, i, s>> \in problem.constraints

\* The assignments of the single-period model as its documentation states it:
\* sum of p = demand and u * min_power <= p <= u * max_power.
SP_Assignments(us, D) ==
    {a \in [1..Len(us) -> [u : Bits, p : 0..MaxPower]] :
        /\ SumTo([i \in 1..Len(us) |-> a[i].p], Len(us)) = D
        /\ \A i \in 1..Len(us) :
              /\ us[i].min_power * a[i].u <= a[i].p
              /\ a[i].p <= us[i].max_power * a[i].u}

SP_Cost(us, a) ==
    SumTo([i \in 1..Len(us) |->
            us[i].startup_cost * a[i].u + us[i].fuel_cost * a[i].p], Len(us))

\* C9 (as claimed): the single-period optimizer ignores history: whenever the
\* single-period problem has an optimum, optimize returns a Solution whose total_cost
\* is the minimum of startup_cost * status + fuel_cost * power over the feasible
\* assignments, a value in which initial_status, initial_power, shutdown_cost,
\* min_uptime, min_downtime and the ramp rates do not occur, so that fleets which
\* differ only in those attributes yield the same total_cost.
C9_SinglePeriodIgnoresHistory ==
    (variant = "single" /\ Finished /\ lpstatus = "Optimal") =>
        /\ pc = "returned"
        /\ solution.total_cost =
              MinOf({SP_Cost(units, a) : a \in SP_Assignments(units, demand[1])})

Transitions(us, status, from, to) ==
    Cardinality({x \in (1..Len(us)) \X (1..Len(status[1])) :
        /\ status[x[1]][x[2]] = to
        /\ from = IF x[2] = 1 THEN us[x[1]].initial_status
                  ELSE status[x[1]][x[2] - 1]})

\* C10 (as claimed): in the assignment behind a returned multi-period optimum,
\* v[i,t] = 1 exactly when unit i goes from off to on at t and w[i,t] = 1 exactly when
\* it goes from on to off (u[i,-1] = initial_status), v and w are never both 1, and
\* total_startups and total_shutdowns count the 0-to-1 and 1-to-0 transitions of the
\* returned status.
C10_IndicatorsAreTransitions ==
    (pc = "returned" /\ variant = "multi" /\ solution.is_optimal) =>
        /\ \A i \in 1..Len(units), t \in 1..Periods :
              LET r == vals.a[i]
                  before == IF t = 1 THEN units[i].initial_status ELSE r.u[t - 1]
              IN  /\ r.v[t] = 1 <=> (before = 0 /\ r.u[t] = 1)
                  /\ r.w[t] = 1 <=> (before = 1 /\ r.u[t] = 0)
                  /\ ~(r.v[t] = 1 /\ r.w[t] = 1)
        /\ solution.metadata.total_startups = Transitions(units, solution.status, 0, 1)
        /\ solution.metadata.total_shutdowns = Transitions(units, solution.status, 1, 0)

(* ==================== properties of Unit construction ================== *)
\* The attribute invariants the documentation of Unit states.
DocumentedUnitInvariants(r) ==
    /\ r.min_power >= 0
    /\ r.max_power >= r.min_power
    /\ r.startup_cost >= 0
    /\ r.shutdown_cost >= 0
    /\ r.fuel_cost >= 0
    /\ r.min_uptime >= 1
    /\ r.min_downtime >= 1

\* C6 (as claimed): Unit(...) raises whenever min_power < 0, max_power < min_power,
\* startup_cost, shutdown_cost or fuel_cost is negative, or min_uptime or min_downtime
\* is below 1, and succeeds otherwise; no Unit violating these is ever constructed.
C6_UnitInvariantsEnforced ==
    /\ args.made => (error = NoError <=> DocumentedUnitInvariants(args.raw))
    /\ \A i \in 1..Len(units) : DocumentedUnitInvariants(units[i])

(* ======================= properties of the auditor ===================== *)
\* C8: validate_solution is idempotent and free of side effects: no step of it
\* changes the Solution, the Units or the Demand (the validator has no fields), and
\* every call on the same arguments ends as the first call did, with Accept or with
\* the same violation.
C8_AuditIdempotent ==
    [][/\ solution' = solution
       /\ units' = units
       /\ demand' = demand
       /\ (audits # <<>> /\ Len(audits') > Len(audits)) =>
              audits'[Len(audits')] = audits[1]]_vars

C8_Witness ==
    /\ Len(audits) = MaxAudits
    /\ audits[1].kind = "min_uptime"
    /\ \E i \in 1..Len(units), t \in 1..Periods :
          solution.status[i][t] = 0 /\ solution.power[i][t] > 0

(* ================ properties of the multi-period model ================= *)
\* A candidate assignment of the built multi-period problem is at hand.
HasCandidate ==
    pc \in {"candidate", "checked"}

\* The status of the unit with row r before period t: u[i,-1] = initial_status.
StatusBefore(un, r, t) ==
    IF t = 1 THEN un.initial_status ELSE r.u[t - 1]

\* The power of the unit with row r before period t: p[i,-1] = initial_power.
PowerBefore(un, r, t) ==
    IF t = 1 THEN un.initial_power ELSE r.p[t - 1]

\* C11: in every assignment that satisfies the multi-period model's constraints, a
\* unit that starts up at period t with t + min_uptime <= T is on in all of the
\* periods t .. t + min_uptime - 1, and a unit that shuts down at t with
\* t + min_downtime <= T is off in all of the periods t .. t + min_downtime - 1.
C11_MinRunsInModel ==
    HasCandidate =>
        \A i \in 1..Len(units), t \in 1..Periods :
            LET un == units[i]
                r == vals.a[i]
                before == StatusBefore(un, r, t)
            IN  /\ (before = 0 /\ r.u[t] = 1 /\ (t - 1) + un.min_uptime <= Periods) =>
                      \A k \in t..(t + un.min_uptime - 1) : r.u[k] = 1
                /\ (before = 1 /\ r.u[t] = 0 /\ (t - 1) + un.min_downtime <= Periods) =>
                      \A k \in t..(t + un.min_downtime - 1) : r.u[k] = 0

C11_Witness ==
    /\ pc = "candidate"
    /\ Periods = MaxHorizon
    /\ \E i \in 1..Len(units) :
          /\ units[i].min_uptime = 2
          /\ units[i].initial_status = 0
          /\ vals.a[i].u = <<0, 1, 1>>

\* C12: in the multi-period model the ramp constraints hold in every period whether
\* or not the unit is committed, each side on its own: with a finite ramp_up_rate
\* p[i,t] - prev <= ramp_up_rate, with a finite ramp_down_rate
\* prev - p[i,t] <= ramp_down_rate (prev = initial_power in the first period), and an
\* unbounded side has no constraint; so no unit is switched on at t with
\* min_power > prev + ramp_up_rate, nor switched off at t with prev > ramp_down_rate.
C12_RampsInModel ==
    /\ pc \in {"built", "candidate", "checked"} =>
          \A i \in 1..Len(units), t \in 1..Periods :
              /\ <<"Ramp_Up", i, t>> \in problem.constraints
                    <=> units[i].ramp_up_rate < Inf
              /\ <<"Ramp_Down", i, t>> \in problem.constraints
                    <=> units[i].ramp_down_rate < Inf
    /\ HasCandidate =>
          \A i \in 1..Len(units), t \in 1..Periods :
              LET un == units[i]
                  r == vals.a[i]
                  prev == PowerBefore(un, r, t)
                  before == StatusBefore(un, r, t)
              IN  /\ un.ramp_up_rate < Inf =>
                        /\ r.p[t] - prev <= un.ramp_up_rate
                        /\ (before = 0 /\ r.u[t] = 1) =>
                              un.min_power <= prev + un.ramp_up_rate
                  /\ un.ramp_down_rate < Inf =>
                        /\ prev - r.p[t] <= un.ramp_down_rate
                        /\ (before = 1 /\ r.u[t] = 0) => prev <= un.ramp_down_rate

C12_Witness ==
    /\ pc = "candidate"
    /\ \E i \in 1..Len(units) :
          /\ units[i].ramp_up_rate = 1
          /\ units[i].ramp_down_rate = Inf
          /\ \E t \in 1..Periods :
                PowerBefore(units[i], vals.a[i], t) - vals.a[i].p[t] = MaxPower
          /\ \E t \in 1..Periods :
                /\ vals.a[i].p[t] - PowerBefore(units[i], vals.a[i], t) = 1
                /\ vals.a[i].u[t] = 1

(* ================== properties of the auditor's checks ================= *)
\* The conditions of the auditor's four checks on the solution at hand, at unit i
\* and period t, as its documentation states them.
BalanceBroken(t) ==
    Abs(SumTo([i \in 1..Len(units) |-> solution.power[i][t]], Len(units)) - demand[t])
        > Eps

CapacityBroken(i, t) ==
    \/ solution.status[i][t] = 1 /\ solution.power[i][t] < units[i].min_power - Eps
    \/ solution.status[i][t] = 1 /\ solution.power[i][t] > units[i].max_power + Eps
    \/ solution.status[i][t] = 0 /\ solution.power[i][t] > Eps

RampBroken(i, t) ==
    LET prev == IF t = 1 THEN units[i].initial_power ELSE solution.power[i][t - 1]
    IN  /\ Periods > 1
        /\ \/ solution.power[i][t] - prev > units[i].ramp_up_rate + Eps
           \/ prev - solution.power[i][t] > units[i].ramp_down_rate + Eps

\* The length of the run of equal status that ends right before period t, the
\* initial state counted as one period when the run reaches back to it.
RunBefore(i, t) ==
    LET row == solution.status[i]
        st == IF t = 1 THEN units[i].initial_status ELSE row[t - 1]
        s == CHOOSE k \in 1..t :
                /\ \A j \in k..(t - 1) : row[j] = st
                /\ \A m \in 1..(k - 1) : \E j \in m..(t - 1) : row[j] # st
    IN  (t - s) + (IF s = 1 /\ units[i].initial_status = st THEN 1 ELSE 0)

RunBroken(i, t) ==
    LET row == solution.status[i]
        st == IF t = 1 THEN units[i].initial_status ELSE row[t - 1]
    IN  /\ row[t] # st
        /\ RunBefore(i, t) < (IF st = 1 THEN units[i].min_uptime
                              ELSE units[i].min_downtime)

\* The pairs that precede (i, t) in unit-major order.
Earlier(i, t) ==
    {x \in (1..Len(units)) \X (1..Periods) : x[1] < i \/ (x[1] = i /\ x[2] < t)}

\* C13: validate_solution stops at the first violation, checking power balance,
\* capacity, ramps and minimum up/down in that order: the error of a call is the
\* one of the earliest kind that the solution violates, at the lowest unit and then
\* the lowest period of that kind (for balance, the lowest period), and the checks
\* after the failing one are not run.
C13_FirstViolationInOrder ==
    (pc = "caller" /\ audits # <<>>) =>
        LET r == audits[Len(audits)]
            all == (1..Len(units)) \X (1..Periods)
            anyBalance == \E t \in 1..Periods : BalanceBroken(t)
            anyCapacity == \E x \in all : CapacityBroken(x[1], x[2])
            anyRamp == \E x \in all : RampBroken(x[1], x[2])
            anyRun == \E x \in all : RunBroken(x[1], x[2])
        IN  IF anyBalance
            THEN /\ r.kind = "power_balance"
                 /\ BalanceBroken(r.period)
                 /\ \A t \in 1..(r.period - 1) : ~BalanceBroken(t)
                 /\ steps = <<"power_balance">>
            ELSE IF anyCapacity
            THEN /\ r.kind = "capacity"
                 /\ CapacityBroken(r.unit, r.period)
                 /\ \A x \in Earlier(r.unit, r.period) : ~CapacityBroken(x[1], x[2])
                 /\ steps = <<"power_balance", "capacity">>
            ELSE IF anyRamp
            THEN /\ r.kind \in {"ramp_up", "ramp_down"}
                 /\ RampBroken(r.unit, r.period)
                 /\ \A x \in Earlier(r.unit, r.period) : ~RampBroken(x[1], x[2])
                 /\ steps = <<"power_balance", "capacity", "ramps">>
            ELSE IF anyRun
            THEN /\ r.kind \in {"min_uptime", "min_downtime"}
                 /\ RunBroken(r.unit, r.period)
                 /\ \A x \in Earlier(r.unit, r.period) : ~RunBroken(x[1], x[2])
                 /\ steps = <<"power_balance", "capacity", "ramps", "min_up_down">>
            ELSE /\ r = Accept
                 /\ steps = <<"power_balance", "capacity", "ramps", "min_up_down">>

C13_Witness ==
    /\ pc = "caller"
    /\ audits # <<>>
    /\ audits[1] = Violation("capacity", 1, 2)
    /\ Len(units) = 2
    /\ CapacityBroken(2, 1)
    /\ \E x \in (1..Len(units)) \X (1..Periods) : RampBroken(x[1], x[2])
    /\ \E x \in (1..Len(units)) \X (1..Periods) : RunBroken(x[1], x[2])

\* C14: the auditor's minimum up/down walk checks run lengths exactly at the
\* transitions: it rejects a 1-to-0 transition at t iff the on-run ending at t - 1 is
\* shorter than min_uptime, and a 0-to-1 transition iff the off-run before it is
\* shorter than min_downtime, a run that began before the horizon counting its
\* periods in the horizon plus one for the initial state; so a unit with
\* initial_status = 1 may be shut down at t iff t + 1 >= min_uptime and one with
\* initial_status = 0 may be started at t iff t + 1 >= min_downtime (t from 0).
C14_WalkChecksTransitions ==
    (pc = "caller" /\ audits # <<>>) =>
        LET r == audits[Len(audits)]
            un == units[1]
            row == solution.status[1]
            bad == {t \in 1..Periods : RunBroken(1, t)}
            first == CHOOSE t \in bad : \A x \in bad : t <= x
            changes == {t \in 1..Periods :
                            row[t] # (IF t = 1 THEN un.initial_status ELSE row[t - 1])}
        IN  /\ IF bad = {} THEN r = Accept
               ELSE r = Violation(IF row[first] = 0 THEN "min_uptime"
                                  ELSE "min_downtime", 1, first)
            /\ \A k \in changes :
                  (\A t \in changes : k <= t) =>
                      IF un.initial_status = 1
                      THEN r = Violation("min_uptime", 1, k) <=> ~(k >= un.min_uptime)
                      ELSE r = Violation("min_downtime", 1, k)
                                <=> ~(k >= un.min_downtime)

C14_Witness ==
    /\ pc = "caller"
    /\ audits = <<Violation("min_uptime", 1, 2)>>
    /\ units[1].initial_status = 0
    /\ units[1].min_downtime = 1
    /\ units[1].min_uptime = 2
    /\ solution.status[1] = <<1, 0, 1>>

\* C15 (as claimed): the multi-period model and the auditor agree on feasibility:
\* for every fleet and demand that validate_inputs accepts, every assignment of
\* status and power that satisfies the model's constraints is accepted by
\* validate_solution, so that no solver-optimal result fails the audit.
C15_ModelAndAuditorAgree ==
    (pc = "checked" /\ variant = "multi") =>
        /\ validate_inputs(variant, units, demand) = "ok"
        /\ audits = <<Accept>>

====
